---- MODULE Spec2Model ----
(***************************************************************************)
(* A model of the semantic retrieval subsystem of the furniture            *)
(* recommender: backend/app/services/vector_store.py (VectorStore) and the *)
(* parts of backend/app/main.py that drive it (module start-up, /recommend *)
(* and /data/upload).                                                      *)
(*                                                                         *)
(* Every Python statement that reads or writes shared state (the three    *)
(* files of the index directory, the four in-memory fields of the          *)
(* VectorStore instance, the module global df) is one step of the thread   *)
(* that executes it, so request threads interleave between statements.     *)
(***************************************************************************)
EXTENDS Integers, Sequences, FiniteSets, TLC

(* ------------------------------ bounds -------------------------------- *)

\* request threads of the HTTP layer's pool
NumWorkers == 2
\* an upload is accepted by the model while the live catalog has fewer rows
MaxCatalog == 3
\* row texts (and query texts) are 0..MaxText
MaxText == 2
\* the dimension of the embedding model's vectors
EmbDim == 2

(* ------------------------------- data --------------------------------- *)

\* thread 0 is the thread that imports main.py (or, for VectorStore used on
\* its own, the single caller); 1..NumWorkers serve requests
Workers == 1..NumWorkers
Threads == 0..NumWorkers

\* the catalog rows of the CSV at DATA_PATH, and the rows uploads may bring
OrigCatalog == <<1, 2>>
NewRows == {3}
UploadFiles == {<<r>> : r \in NewRows}

\* the catalogs VectorStore.build is given when it is used on its own; the
\* last one holds the same row twice
StoreCatalogs == {<<1>>, <<1, 2>>, <<2, 1, 3>>, <<1, 2, 1>>}

Queries == 0..MaxText
TopKs == (0 - 1)..(MaxCatalog + 1)
\* the k of a /recommend request: one result, or more than the catalog holds
ReqKs == {1, MaxCatalog + 1}
\* the query text of a /recommend request
ReqQueries == {0}

Min(a, b) == IF a < b THEN a ELSE b
Max(a, b) == IF a > b THEN a ELSE b
Abs(a) == IF a < 0 THEN 0 - a ELSE a

\* build, line 75: the text of a row, its text columns joined
RowText(r) == r % (MaxText + 1)

\* the sentence encoder: a raw vector is a direction (a multiple of 60
\* degrees) and a length; texts with the same content get the same vector
ModelEncode(t) == [ang |-> t, mag |-> t + 2]

\* _l2_normalize, and build line 80-81 / search line 109: unit length
L2Normalize(v) == [v EXCEPT !.mag = 1]

\* TextEmbedder.encode
Encode(t) == L2Normalize(ModelEncode(t))

\* build, lines 75-81: one unit vector per row, in row order
EmbedAll(rows) == [i \in 1..Len(rows) |-> L2Normalize(Encode(RowText(rows[i])))]

\* twice the cosine of the angle between two unit vectors d * 60 degrees apart
Cos2(d) == CASE d = 0 -> 2 [] d = 1 -> 1 [] d = 2 -> 0 - 1 [] OTHER -> 0 - 2

\* the metric of the fitted index, cosine distance: 1 - cosine, here twice
\* that to stay in integers
CosineDistance(qv, v) == 2 - Cos2(Abs(qv.ang - v.ang))

\* search, line 113: sims = 1.0 - dists, on the same scale
Similarity(dist) == 2 - dist

NoFile == [st |-> "absent", data |-> <<>>]
NoInfo == [st |-> "absent", n |-> 0, dim |-> 0]
None == [set |-> FALSE, data |-> <<>>]
Some(d) == [set |-> TRUE, data |-> d]

\* a caller that has made no search it is going to repeat
NoCall == [stage |-> "none", data |-> <<>>, query |-> 0, top_k |-> 0, k |-> 0, hits |-> <<>>]

\* no call of DescriptionGenerator.generate is under way
NoGenerate == [pc |-> "idle", prompt |-> <<>>, out |-> <<>>, ret |-> <<>>]

(* ------------------------------ state --------------------------------- *)

VARIABLES
    vecFile,       \* index_dir/vectors.npy
    metaFile,      \* index_dir/meta.csv, the catalog as it was built
    infoFile,      \* index_dir/meta.json, {"dim", "n"}
    self_vectors,  \* VectorStore._vectors
    self_index,    \* VectorStore._index: the rows the neighbor structure was fitted on
    self_n,        \* VectorStore._n
    self_dim,      \* VectorStore._dim (-1: None)
    df,            \* main.py's global df, the live catalog
    pc,            \* the statement each thread is at
    op,            \* the call each thread is serving
    new_df,        \* upload_dataset's new_df
    bdf,           \* the right-hand side of line 229, then build's parameter df
    arr,           \* _load_if_exists' arr
    query,         \* search's query
    top_k,         \* search's top_k
    k,             \* search's k
    hits,          \* search's return value
    exc,           \* the exception a thread is raising
    before,        \* a caller's record of the search it made before a restart
    self_pipe,     \* DescriptionGenerator.pipe
    gen            \* DescriptionGenerator.generate: where it is, its locals, its result

vars == <<vecFile, metaFile, infoFile, self_vectors, self_index, self_n, self_dim,
          df, pc, op, new_df, bdf, arr, query, top_k, k, hits, exc, before,
          self_pipe, gen>>

disk == <<vecFile, metaFile, infoFile>>
mem == <<self_vectors, self_index, self_n, self_dim>>
locals == <<new_df, bdf, arr, query, top_k, k, hits, exc>>
genai == <<self_pipe, gen>>

\* an index directory left by an earlier version: an empty vectors array
\* (the case lines 45-47 of _load_if_exists exist for) beside an empty meta.csv
LegacyEmptyIndex ==
    /\ vecFile = [st |-> "ok", data |-> <<>>]
    /\ metaFile = [st |-> "ok", data |-> <<>>]
    /\ infoFile = NoInfo

EmptyIndexDir ==
    /\ vecFile = NoFile
    /\ metaFile = NoFile
    /\ infoFile = NoInfo

\* before the process starts: nothing in memory
NotStarted ==
    /\ self_vectors = None
    /\ self_index = None
    /\ self_n = 0
    /\ self_dim = 0 - 1
    /\ df = <<>>
    /\ pc = [t \in Threads |-> IF t = 0 THEN "down" ELSE "idle"]
    /\ op = [t \in Threads |-> "none"]
    /\ new_df = [t \in Threads |-> <<>>]
    /\ bdf = [t \in Threads |-> <<>>]
    /\ arr = [t \in Threads |-> <<>>]
    /\ query = [t \in Threads |-> 0]
    /\ top_k = [t \in Threads |-> 0]
    /\ k = [t \in Threads |-> 0]
    /\ hits = [t \in Threads |-> <<>>]
    /\ exc = [t \in Threads |-> "none"]
    /\ before = NoCall
    /\ self_pipe = "unset"
    /\ gen = NoGenerate

\* the service starts over the index directory as os.makedirs makes it
Init == EmptyIndexDir /\ NotStarted

\* a VectorStore may be constructed over a directory an earlier version left
InitStore == (EmptyIndexDir \/ LegacyEmptyIndex) /\ NotStarted

(* ----------------------------- helpers -------------------------------- *)

\* os.path.isfile
IsFile(f) == f.st # "absent"

\* VectorStore.is_built
IsBuilt == IsFile(vecFile) /\ IsFile(metaFile)

\* a thread's locals are dropped when its call ends
Forget(t) ==
    /\ new_df' = [new_df EXCEPT ![t] = <<>>]
    /\ bdf' = [bdf EXCEPT ![t] = <<>>]
    /\ arr' = [arr EXCEPT ![t] = <<>>]
    /\ query' = [query EXCEPT ![t] = 0]
    /\ top_k' = [top_k EXCEPT ![t] = 0]
    /\ k' = [k EXCEPT ![t] = 0]
    /\ hits' = [hits EXCEPT ![t] = <<>>]
    /\ exc' = [exc EXCEPT ![t] = "none"]

Goto(t, label) == pc' = [pc EXCEPT ![t] = label]

Raise(t, e) ==
    /\ pc' = [pc EXCEPT ![t] = "raise"]
    /\ exc' = [exc EXCEPT ![t] = e]

\* the process ends: its threads and its memory are gone, its files stay
ProcessExit ==
    /\ self_vectors' = None
    /\ self_index' = None
    /\ self_n' = 0
    /\ self_dim' = 0 - 1
    /\ df' = <<>>
    /\ pc' = [t \in Threads |-> IF t = 0 THEN "down" ELSE "idle"]
    /\ op' = [t \in Threads |-> "none"]
    /\ new_df' = [t \in Threads |-> <<>>]
    /\ bdf' = [t \in Threads |-> <<>>]
    /\ arr' = [t \in Threads |-> <<>>]
    /\ query' = [t \in Threads |-> 0]
    /\ top_k' = [t \in Threads |-> 0]
    /\ k' = [t \in Threads |-> 0]
    /\ hits' = [t \in Threads |-> <<>>]
    /\ exc' = [t \in Threads |-> "none"]
    /\ UNCHANGED <<disk, before, genai>>

(* ----------------------- VectorStore._load_if_exists ------------------- *)

\* where _load_if_exists returns to: __init__ (line 32) or search (line 105)
LoadReturnLabel(t) ==
    CASE op[t] = "boot" -> "m_isbuilt"
      [] op[t] = "construct" -> "idle"
      [] OTHER -> "s_guard"

\* line 41-42
LoadCheck(t) ==
    /\ pc[t] = "l_check"
    /\ IF IsFile(vecFile) /\ IsFile(metaFile)
         THEN Goto(t, "l_read")
         ELSE Goto(t, LoadReturnLabel(t))
    /\ UNCHANGED <<disk, mem, df, genai, before, op, locals>>

\* lines 44-47: np.load raises on a file that is not a whole array
LoadRead(t) ==
    /\ pc[t] = "l_read"
    /\ IF vecFile.st = "ok"
         THEN /\ arr' = [arr EXCEPT ![t] = vecFile.data]
              /\ Goto(t, "l_vectors")
         ELSE /\ arr' = arr
              /\ Goto(t, "l_except")
    /\ UNCHANGED <<disk, mem, df, genai, before, op, new_df, bdf, query, top_k, k, hits, exc>>

\* line 48
LoadVectors(t) ==
    /\ pc[t] = "l_vectors"
    /\ self_vectors' = Some(arr[t])
    /\ Goto(t, "l_n")
    /\ UNCHANGED <<disk, self_index, self_n, self_dim, df, genai, before, op, locals>>

\* lines 49-50
LoadN(t) ==
    /\ pc[t] = "l_n"
    /\ self_n' = Len(arr[t])
    /\ self_dim' = IF Len(arr[t]) # 0 THEN EmbDim ELSE 0
    /\ Goto(t, "l_fit")
    /\ UNCHANGED <<disk, self_vectors, self_index, df, genai, before, op, locals>>

\* lines 52-57 as they would be if the load kept the vectors and fitted
\* nothing
LoadFit_Unfitted(t) ==
    /\ pc[t] = "l_fit"
    /\ Goto(t, LoadReturnLabel(t))
    /\ UNCHANGED <<disk, mem, df, genai, before, op, locals>>

\* lines 52-57: fitted on self._vectors as it is now; fit(None) raises
LoadFit(t) ==
    /\ pc[t] = "l_fit"
    /\ IF self_n = 0
         THEN /\ self_index' = self_index
              /\ Goto(t, LoadReturnLabel(t))
         ELSE IF self_vectors.set /\ Len(self_vectors.data) > 0
                THEN /\ self_index' = Some(self_vectors.data)
                     /\ Goto(t, LoadReturnLabel(t))
                ELSE /\ self_index' = self_index
                     /\ Goto(t, "l_except")
    /\ UNCHANGED <<disk, self_vectors, self_n, self_dim, df, genai, before, op, locals>>

\* lines 58-60
LoadExcept(t) ==
    /\ pc[t] = "l_except"
    /\ self_vectors' = None
    /\ self_index' = None
    /\ self_dim' = 0 - 1
    /\ self_n' = 0
    /\ Goto(t, LoadReturnLabel(t))
    /\ UNCHANGED <<disk, df, genai, before, op, locals>>

LoadStep(t) ==
    \/ LoadCheck(t)
    \/ LoadRead(t)
    \/ LoadVectors(t)
    \/ LoadN(t)
    \/ LoadFit(t)
    \/ LoadExcept(t)

(* --------------------------- VectorStore.build ------------------------- *)

\* lines 75-81: the vectors build computes from its parameter df
Embs(t) == EmbedAll(bdf[t])

\* where build returns to: main.py line 110 or 231, or the caller
BuildReturnLabel(t) ==
    CASE op[t] = "boot" -> "serving"
      [] op[t] = "upload" -> "u_ret"
      [] OTHER -> "idle"

\* line 84, np.save opening vectors.npy for writing: the old content is gone
BuildVecOpen(t) ==
    /\ pc[t] = "b_open"
    /\ \/ /\ vecFile' = [st |-> "partial", data |-> <<>>]
          /\ Goto(t, "b_write")
          /\ exc' = exc
       \/ /\ vecFile' = vecFile
          /\ Raise(t, "OSError")
    /\ UNCHANGED <<metaFile, infoFile, mem, df, genai, before, op, new_df, bdf, arr, query, top_k, k, hits>>

\* whether another thread has vectors.npy open for writing
OtherWriter(t) == \E u \in Threads \ {t} : pc[u] = "b_write"

\* what vectors.npy holds when np.save returns: two writers of the one file
\* leave either a whole array or a garbled one
Written(t) ==
    {[st |-> "ok", data |-> Embs(t)]} \cup
    (IF OtherWriter(t) THEN {[st |-> "partial", data |-> <<>>]} ELSE {})

\* line 84, np.save writing the array and closing the file, or failing
\* part-way
BuildVecWrite(t) ==
    /\ pc[t] = "b_write"
    /\ \/ /\ \E f \in Written(t) : vecFile' = f
          /\ Goto(t, "b_csv")
          /\ exc' = exc
       \/ /\ vecFile' = [st |-> "partial", data |-> <<>>]
          /\ Raise(t, "OSError")
    /\ UNCHANGED <<metaFile, infoFile, mem, df, genai, before, op, new_df, bdf, arr, query, top_k, k, hits>>

\* line 85, to_csv: written, or failing before or after it opened meta.csv
BuildCsv(t) ==
    /\ pc[t] = "b_csv"
    /\ \/ /\ metaFile' = [st |-> "ok", data |-> bdf[t]]
          /\ Goto(t, "b_vectors")
          /\ exc' = exc
       \/ /\ metaFile' = metaFile
          /\ Raise(t, "OSError")
       \/ /\ metaFile' = [st |-> "partial", data |-> <<>>]
          /\ Raise(t, "OSError")
    /\ UNCHANGED <<vecFile, infoFile, mem, df, genai, before, op, new_df, bdf, arr, query, top_k, k, hits>>

\* line 88
BuildVectors(t) ==
    /\ pc[t] = "b_vectors"
    /\ self_vectors' = Some(Embs(t))
    /\ Goto(t, "b_n")
    /\ UNCHANGED <<disk, self_index, self_n, self_dim, df, genai, before, op, locals>>

\* line 89
BuildN(t) ==
    /\ pc[t] = "b_n"
    /\ self_n' = Len(Embs(t))
    /\ self_dim' = EmbDim
    /\ Goto(t, "b_fit")
    /\ UNCHANGED <<disk, self_vectors, self_index, df, genai, before, op, locals>>

\* what NearestNeighbors(...).fit(vectors) keeps: the rows it was fitted on
Fit(vectors) == Some(vectors.data)

\* lines 90-94: fitted on self._vectors as it is now; fit(None) raises
BuildFit(t) ==
    /\ pc[t] = "b_fit"
    /\ IF self_vectors.set
         THEN /\ self_index' = Fit(self_vectors)
              /\ Goto(t, "b_meta")
              /\ exc' = exc
         ELSE /\ self_index' = self_index
              /\ Raise(t, "ValueError")
    /\ UNCHANGED <<disk, self_vectors, self_n, self_dim, df, genai, before, op, new_df, bdf, arr, query,
                   top_k, k, hits>>

\* line 96, _save_meta (lines 35-38): self._dim and self._n as they are now;
\* written, or failing before meta.json is opened
BuildMeta(t) ==
    /\ pc[t] = "b_meta"
    /\ \/ /\ infoFile' = [st |-> "ok", n |-> self_n, dim |-> self_dim]
          /\ Goto(t, BuildReturnLabel(t))
          /\ exc' = exc
       \/ /\ infoFile' = infoFile
          /\ Raise(t, "OSError")
    /\ UNCHANGED <<vecFile, metaFile, mem, df, genai, before, op, new_df, bdf, arr, query, top_k, k, hits>>

BuildStep(t) ==
    \/ BuildVecOpen(t)
    \/ BuildVecWrite(t)
    \/ BuildCsv(t)
    \/ BuildVectors(t)
    \/ BuildN(t)
    \/ BuildFit(t)
    \/ BuildMeta(t)

(* --------------------------- VectorStore.search ------------------------ *)

\* the row ids of an array of n vectors
RowIds(n) == 0..(n - 1)

DistOf(data, qv, id) == CosineDistance(qv, data[id + 1])

\* NearestNeighbors.kneighbors over the fitted rows (brute force, cosine):
\* the kk nearest rows, nearest first; which of several rows at the same
\* distance is kept, and in which order they come, is the library's choice
KNeighbors(data, qv, kk) ==
    {s \in [1..kk -> RowIds(Len(data))] :
        /\ \A i, j \in 1..kk : i # j => s[i] # s[j]
        /\ \A i \in 1..(kk - 1) : DistOf(data, qv, s[i]) <= DistOf(data, qv, s[i + 1])
        /\ \A id \in RowIds(Len(data)) :
              (\A i \in 1..kk : s[i] # id) =>
                  \A i \in 1..kk : DistOf(data, qv, id) >= DistOf(data, qv, s[i])}

\* lines 113-115: the (row_index, similarity) pairs
Pairs(data, qv, s) ==
    [i \in 1..Len(s) |-> <<s[i], Similarity(DistOf(data, qv, s[i]))>>]

\* line 103-104
SearchCheck(t) ==
    /\ pc[t] = "s_check"
    /\ IF ~self_vectors.set \/ ~self_index.set
         THEN Goto(t, "l_check")
         ELSE Goto(t, "s_guard")
    /\ UNCHANGED <<disk, mem, df, genai, before, op, locals>>

\* line 105 as it would be with only the vectors checked
NotBuilt_VectorsOnly == ~self_vectors.set

\* line 105
NotBuilt == ~self_vectors.set \/ ~self_index.set \/ self_n = 0

\* line 105-106
SearchGuard(t) ==
    /\ pc[t] = "s_guard"
    /\ IF NotBuilt
         THEN Raise(t, "NotBuilt")
         ELSE Goto(t, "s_k") /\ exc' = exc
    /\ UNCHANGED <<disk, mem, df, genai, before, op, new_df, bdf, arr, query, top_k, k, hits>>

\* line 111 as it would be without the floor of 1
Clamp_NoFloor(topk, n) == Min(topk, n)

\* line 111
Clamp(topk, n) == Min(Max(1, topk), n)

\* lines 108-111
SearchK(t) ==
    /\ pc[t] = "s_k"
    /\ k' = [k EXCEPT ![t] = Clamp(top_k[t], self_n)]
    /\ Goto(t, "s_knn")
    /\ UNCHANGED <<disk, mem, df, genai, before, op, new_df, bdf, arr, query, top_k, hits, exc>>

\* kneighbors is a function of the rows fitted, the query vector and
\* n_neighbors: whatever order the library gives rows at the same distance,
\* the call the caller has on record gets the same answer when it is made
\* again (a restart leaves the installed library as it is)
SameCall(data, q, kk, h) ==
    (before.stage # "none" /\ before.data = data /\ before.query = q /\ before.k = kk)
        => h = before.hits

\* lines 112-115: self._index as it is now; None has no kneighbors, and
\* kneighbors refuses n_neighbors < 1 and n_neighbors > the rows fitted
SearchKnn(t) ==
    /\ pc[t] = "s_knn"
    /\ IF ~self_index.set
         THEN /\ Raise(t, "AttributeError")
              /\ hits' = hits
         ELSE IF k[t] < 1 \/ k[t] > Len(self_index.data)
                THEN /\ Raise(t, "ValueError")
                     /\ hits' = hits
                ELSE /\ \E s \in KNeighbors(self_index.data,
                                           L2Normalize(Encode(query[t])), k[t]) :
                            /\ SameCall(self_index.data, query[t], k[t],
                                        Pairs(self_index.data,
                                              L2Normalize(Encode(query[t])), s))
                            /\ hits' = [hits EXCEPT ![t] =
                                          Pairs(self_index.data,
                                                L2Normalize(Encode(query[t])), s)]
                     /\ Goto(t, "s_ret")
                     /\ exc' = exc
    /\ UNCHANGED <<disk, mem, df, genai, before, op, new_df, bdf, arr, query, top_k, k>>

SearchStep(t) ==
    \/ SearchCheck(t)
    \/ SearchGuard(t)
    \/ SearchK(t)
    \/ SearchKnn(t)

(* ------------------------------- main.py ------------------------------- *)

\* a call ends: the thread is free again
Done(t) ==
    /\ pc' = [pc EXCEPT ![t] = "idle"]
    /\ op' = [op EXCEPT ![t] = "none"]
    /\ Forget(t)

\* lines 89-107: the catalog is read from DATA_PATH and the VectorStore
\* constructed (lines 17-32 of vector_store.py)
Boot ==
    /\ pc[0] = "down"
    /\ df' = OrigCatalog
    /\ self_vectors' = None
    /\ self_index' = None
    /\ self_dim' = 0 - 1
    /\ self_n' = 0
    /\ pc' = [pc EXCEPT ![0] = "l_check"]
    /\ op' = [op EXCEPT ![0] = "boot"]
    /\ UNCHANGED <<disk, locals, before, genai>>

\* lines 108-110
StartupBuild ==
    /\ pc[0] = "m_isbuilt"
    /\ IF ~IsBuilt
         THEN /\ bdf' = [bdf EXCEPT ![0] = df]
              /\ Goto(0, "b_open")
         ELSE /\ bdf' = bdf
              /\ Goto(0, "serving")
    /\ UNCHANGED <<disk, mem, df, genai, before, op, new_df, arr, query, top_k, k, hits, exc>>

\* the process is stopped (or dies) and is started again later
Kill ==
    /\ op[0] = "boot"
    /\ pc[0] # "raise"
    /\ ProcessExit

\* a request is handed to the first free worker of the pool
FirstFree(t) ==
    /\ pc[0] = "serving"
    /\ pc[t] = "idle"
    /\ \A u \in Workers : u < t => pc[u] # "idle"

\* line 161-163
RecommendCall(t) ==
    /\ FirstFree(t)
    /\ \E qq \in ReqQueries, kk \in ReqKs :
          /\ query' = [query EXCEPT ![t] = qq]
          /\ top_k' = [top_k EXCEPT ![t] = kk]
    /\ op' = [op EXCEPT ![t] = "recommend"]
    /\ Goto(t, "s_check")
    /\ UNCHANGED <<disk, mem, df, genai, before, new_df, bdf, arr, k, hits, exc>>

\* lines 164-202: every hit is looked up in the live catalog, df.iloc[idx]
RecommendJoin(t) ==
    /\ pc[t] = "s_ret"
    /\ op[t] = "recommend"
    /\ IF \A i \in 1..Len(hits[t]) : hits[t][i][1] < Len(df)
         THEN Done(t)
         ELSE /\ Raise(t, "IndexError")
              /\ UNCHANGED <<op, new_df, bdf, arr, query, top_k, k, hits>>
    /\ UNCHANGED <<disk, mem, df, genai, before>>

\* lines 218-227: the uploaded file parses, or pd.read_csv raises
UploadCall(t) ==
    /\ FirstFree(t)
    /\ Len(df) < MaxCatalog
    /\ op' = [op EXCEPT ![t] = "upload"]
    /\ \/ /\ \E f \in UploadFiles : new_df' = [new_df EXCEPT ![t] = f]
          /\ Goto(t, "u_concat")
          /\ exc' = exc
       \/ /\ new_df' = new_df
          /\ Raise(t, "ParserError")
    /\ UNCHANGED <<disk, mem, df, genai, before, bdf, arr, query, top_k, k, hits>>

\* line 229, the right-hand side: pd.concat([df, new_df])
UploadConcat(t) ==
    /\ pc[t] = "u_concat"
    /\ bdf' = [bdf EXCEPT ![t] = df \o new_df[t]]
    /\ Goto(t, "u_assign")
    /\ UNCHANGED <<disk, mem, df, genai, before, op, new_df, arr, query, top_k, k, hits, exc>>

\* line 229, the assignment to the global
UploadAssign(t) ==
    /\ pc[t] = "u_assign"
    /\ df' = bdf[t]
    /\ Goto(t, "u_build")
    /\ UNCHANGED <<disk, mem, op, locals, before, genai>>

\* line 230: build is called with the global as it is now
UploadBuild(t) ==
    /\ pc[t] = "u_build"
    /\ bdf' = [bdf EXCEPT ![t] = df]
    /\ Goto(t, "b_open")
    /\ UNCHANGED <<disk, mem, df, genai, before, op, new_df, arr, query, top_k, k, hits, exc>>

\* line 231
UploadReturn(t) ==
    /\ pc[t] = "u_ret"
    /\ Done(t)
    /\ UNCHANGED <<disk, mem, df, genai, before>>

\* an exception leaves the handler: line 232-233 answers 400, /recommend
\* answers 500, and the thread is free again
RequestFails(t) ==
    /\ pc[t] = "raise"
    /\ op[t] \in {"upload", "recommend"}
    /\ Done(t)
    /\ UNCHANGED <<disk, mem, df, genai, before>>

\* an exception at import (line 109) ends the process
StartupFails ==
    /\ pc[0] = "raise"
    /\ op[0] = "boot"
    /\ ProcessExit

AppStep(t) ==
    \/ RecommendCall(t)
    \/ RecommendJoin(t)
    \/ UploadCall(t)
    \/ UploadConcat(t)
    \/ UploadAssign(t)
    \/ UploadBuild(t)
    \/ UploadReturn(t)
    \/ RequestFails(t)

\* the service: main.py imported by thread 0, requests served by the workers
Next ==
    \/ Boot
    \/ StartupBuild
    \/ StartupFails
    \/ Kill
    \/ \E t \in Threads : LoadStep(t) \/ BuildStep(t) \/ SearchStep(t)
    \/ \E t \in Workers : AppStep(t)

Spec == Init /\ [][Next]_vars

(* ---------------------- VectorStore used on its own -------------------- *)

\* VectorStore(index_dir), lines 17-32: a new instance over the directory
Construct ==
    /\ pc[0] \in {"down", "idle"}
    /\ self_vectors' = None
    /\ self_index' = None
    /\ self_dim' = 0 - 1
    /\ self_n' = 0
    /\ pc' = [pc EXCEPT ![0] = "l_check"]
    /\ op' = [op EXCEPT ![0] = "construct"]
    /\ UNCHANGED <<disk, df, genai, before, locals>>

\* build(df, embedder, text_cols), line 67
StoreBuildCall ==
    /\ pc[0] = "idle"
    /\ \E c \in StoreCatalogs : bdf' = [bdf EXCEPT ![0] = c]
    /\ op' = [op EXCEPT ![0] = "build"]
    /\ Goto(0, "b_open")
    /\ UNCHANGED <<disk, mem, df, genai, before, new_df, arr, query, top_k, k, hits, exc>>

\* search(query, embedder, top_k), line 98
StoreSearchCall ==
    /\ pc[0] = "idle"
    /\ \E qq \in Queries, kk \in TopKs :
          /\ query' = [query EXCEPT ![0] = qq]
          /\ top_k' = [top_k EXCEPT ![0] = kk]
    /\ op' = [op EXCEPT ![0] = "search"]
    /\ Goto(0, "s_check")
    /\ UNCHANGED <<disk, mem, df, genai, before, new_df, bdf, arr, k, hits, exc>>

\* search returns its pairs (line 115), or a call raises to the caller
StoreReturn ==
    /\ \/ pc[0] = "s_ret" /\ op[0] = "search"
       \/ pc[0] = "raise" /\ op[0] \in {"search", "build"}
    /\ Done(0)
    /\ UNCHANGED <<disk, mem, df, genai, before>>

\* one caller using a VectorStore directly, one call at a time
NextStore ==
    \/ Construct
    \/ StoreBuildCall
    \/ StoreSearchCall
    \/ StoreReturn
    \/ LoadStep(0) \/ BuildStep(0) \/ SearchStep(0)

SpecStore == InitStore /\ [][NextStore]_vars

(* --------------------- the round trip across a restart ----------------- *)

\* a build has just returned to the caller (line 96 done): the caller
\* searches, and will repeat this search after the restart
RoundTripSearch ==
    /\ pc[0] = "idle"
    /\ op[0] = "build"
    /\ before.stage = "none"
    /\ \E qq \in Queries, kk \in TopKs :
          /\ query' = [query EXCEPT ![0] = qq]
          /\ top_k' = [top_k EXCEPT ![0] = kk]
    /\ before' = [before EXCEPT !.stage = "first"]
    /\ op' = [op EXCEPT ![0] = "search"]
    /\ Goto(0, "s_check")
    /\ UNCHANGED <<disk, mem, df, genai, new_df, bdf, arr, k, hits, exc>>

\* the caller keeps what search returned, the instance is discarded with
\* all it held in memory, and VectorStore(index_dir) is constructed again
\* over the same directory (lines 17-32)
Restart ==
    /\ pc[0] = "s_ret"
    /\ op[0] = "search"
    /\ before.stage = "first"
    /\ before' = [stage |-> "restarted", data |-> self_index.data, query |-> query[0],
                  top_k |-> top_k[0], k |-> k[0], hits |-> hits[0]]
    /\ self_vectors' = None
    /\ self_index' = None
    /\ self_dim' = 0 - 1
    /\ self_n' = 0
    /\ pc' = [pc EXCEPT ![0] = "l_check"]
    /\ op' = [op EXCEPT ![0] = "construct"]
    /\ Forget(0)
    /\ UNCHANGED <<disk, df, genai>>

\* search(query, embedder, top_k) on the new instance, with the query and
\* top_k of the search on record
SearchAgain ==
    /\ pc[0] = "idle"
    /\ op[0] = "construct"
    /\ before.stage = "restarted"
    /\ query' = [query EXCEPT ![0] = before.query]
    /\ top_k' = [top_k EXCEPT ![0] = before.top_k]
    /\ before' = [before EXCEPT !.stage = "again"]
    /\ op' = [op EXCEPT ![0] = "search"]
    /\ Goto(0, "s_check")
    /\ UNCHANGED <<disk, mem, df, genai, new_df, bdf, arr, k, hits, exc>>

\* the repeated search has returned or raised: the caller drops its record
RoundTripDone ==
    /\ pc[0] \in {"s_ret", "raise"}
    /\ op[0] = "search"
    /\ before.stage = "again"
    /\ before' = NoCall
    /\ pc' = [pc EXCEPT ![0] = "idle"]
    /\ op' = [op EXCEPT ![0] = "none"]
    /\ Forget(0)
    /\ UNCHANGED <<disk, mem, df, genai>>

\* a build that raised returns to the caller, who may build again
FailedBuildReturn ==
    /\ op[0] = "build"
    /\ StoreReturn

\* the caller constructs and builds before the round trip, and calls
\* nothing else between its two searches
CallerConstructs ==
    /\ before.stage = "none"
    /\ Construct

CallerBuilds ==
    /\ before.stage = "none"
    /\ StoreBuildCall

\* one caller: builds until one succeeds, searches, restarts, searches again
NextRoundTrip ==
    \/ CallerConstructs
    \/ CallerBuilds
    \/ FailedBuildReturn
    \/ RoundTripSearch
    \/ Restart
    \/ SearchAgain
    \/ RoundTripDone
    \/ LoadStep(0) \/ BuildStep(0) \/ SearchStep(0)

SpecRoundTrip == InitStore /\ [][NextRoundTrip]_vars

(* ------------------ the service taking one request at a time ----------- *)

\* main.py imported once and never restarted while it serves, its requests
\* arriving one after the other (FirstFree hands each to worker 1). A load
\* happens here only at start-up, where vectors.npy beside a meta.csv is
\* always a whole array, so no thread comes to the except branch of
\* _load_if_exists (LoadExcept)
NextOneByOne ==
    \/ Boot
    \/ StartupBuild
    \/ StartupFails
    \/ \E t \in {0, 1} :
          \/ LoadCheck(t) \/ LoadRead(t) \/ LoadVectors(t) \/ LoadN(t) \/ LoadFit(t)
          \/ BuildStep(t)
          \/ SearchStep(t)
    \/ AppStep(1)

SpecOneByOne == Init /\ [][NextOneByOne]_vars

(* ------------------- services/genai.py: DescriptionGenerator ----------- *)

\* a text is a sequence of tokens: a word "w", a run of whitespace "s", the
\* marker "Blurb:" "M", and the placeholder of textwrap.shorten "e"
MaxPrompt == 2
MaxGen == 2
\* the width given to textwrap.shorten (420 characters), in tokens
ShortenWidth == 3

Tokens == {"w", "s", "M"}
Texts(n) == UNION {[1..m -> Tokens] : m \in 0..n}

\* line 31: the style line, the context and the marker at the end
FullPrompt(p) == <<"w", "s">> \o p \o <<"s", "M">>

\* the two static blurbs, lines 34-35 and 49-50
Fallback == <<"w", "s", "w">>
FallbackAfterError == <<"w", "s", "w", "s", "w">>

RECURSIVE LStrip(_)
LStrip(x) == IF x = <<>> \/ Head(x) # "s" THEN x ELSE LStrip(Tail(x))

RECURSIVE RStrip(_)
RStrip(x) ==
    IF x = <<>> \/ x[Len(x)] # "s" THEN x ELSE RStrip(SubSeq(x, 1, Len(x) - 1))

\* str.strip
Strip(x) == LStrip(RStrip(x))

\* line 46, out.split("Blurb:", 1)[-1]: what follows the first marker, or
\* all of out when it holds no marker
AfterMarker(x) ==
    IF \E i \in 1..Len(x) : x[i] = "M"
      THEN LET i == CHOOSE j \in 1..Len(x) :
                        x[j] = "M" /\ \A h \in 1..(j - 1) : x[h] # "M"
           IN SubSeq(x, i + 1, Len(x))
      ELSE x

\* textwrap.shorten collapses whitespace first
RECURSIVE Collapse(_)
Collapse(x) ==
    IF Len(x) < 2 THEN x
    ELSE IF x[1] = "s" /\ x[2] = "s" THEN Collapse(Tail(x))
    ELSE <<x[1]>> \o Collapse(Tail(x))

\* textwrap.shorten(text, width, placeholder="..."): the text if it fits,
\* else as many whole words as fit before the placeholder
Shorten(x, width) ==
    LET c == Collapse(Strip(x))
        fits == {j \in 0..Len(c) : Len(RStrip(SubSeq(c, 1, j))) + 1 <= width}
        most == CHOOSE j \in fits : \A h \in fits : h <= j
    IN IF Len(c) <= width THEN c ELSE RStrip(SubSeq(c, 1, most)) \o <<"e">>

\* lines 17-28: the pipeline is loaded, or it is missing or fails to load
GenConstruct ==
    /\ self_pipe = "unset"
    /\ self_pipe' \in {"none", "loaded"}
    /\ UNCHANGED <<disk, mem, df, pc, op, locals, before, gen>>

\* generate(prompt), lines 30-31
GenerateCall ==
    /\ self_pipe # "unset"
    /\ gen.pc = "idle"
    /\ \E p \in Texts(MaxPrompt) :
          gen' = [pc |-> "g_check", prompt |-> FullPrompt(p), out |-> <<>>, ret |-> <<>>]
    /\ UNCHANGED <<disk, mem, df, pc, op, locals, before, self_pipe>>

\* lines 32-35
GenCheck ==
    /\ gen.pc = "g_check"
    /\ IF self_pipe = "none"
         THEN gen' = [gen EXCEPT !.pc = "returned", !.ret = Fallback]
         ELSE gen' = [gen EXCEPT !.pc = "g_pipe"]
    /\ UNCHANGED <<disk, mem, df, pc, op, locals, before, self_pipe>>

\* lines 37-44: generated_text is the prompt and what the model adds to it,
\* or the call raises
GenPipe ==
    /\ gen.pc = "g_pipe"
    /\ \/ \E c \in Texts(MaxGen) :
             gen' = [gen EXCEPT !.pc = "g_tail", !.out = gen.prompt \o c]
       \/ gen' = [gen EXCEPT !.pc = "g_except"]
    /\ UNCHANGED <<disk, mem, df, pc, op, locals, before, self_pipe>>

\* lines 46-47
GenTail ==
    /\ gen.pc = "g_tail"
    /\ gen' = [gen EXCEPT !.pc = "returned",
                          !.ret = Shorten(Strip(AfterMarker(gen.out)), ShortenWidth)]
    /\ UNCHANGED <<disk, mem, df, pc, op, locals, before, self_pipe>>

\* lines 48-50
GenExcept ==
    /\ gen.pc = "g_except"
    /\ gen' = [gen EXCEPT !.pc = "returned", !.ret = FallbackAfterError]
    /\ UNCHANGED <<disk, mem, df, pc, op, locals, before, self_pipe>>

\* the caller has the string
GenReturn ==
    /\ gen.pc = "returned"
    /\ gen' = NoGenerate
    /\ UNCHANGED <<disk, mem, df, pc, op, locals, before, self_pipe>>

NextGenAI ==
    \/ GenConstruct
    \/ GenerateCall
    \/ GenCheck
    \/ GenPipe
    \/ GenTail
    \/ GenExcept
    \/ GenReturn

SpecGenAI == Init /\ [][NextGenAI]_vars

(* ------------------------------- claims -------------------------------- *)

\* a thread is inside search, called by /recommend or directly
Searching(t) == op[t] \in {"recommend", "search"}

\* C1: a search concurrent with a build works against one index: the index
\* it is about to query at line 112 is the one whose count gave it k at line
\* 111, and the vectors file its lazy load reads is never a part-written one.
C1_SearchSeesOneIndex ==
    \A t \in Workers :
        /\ (Searching(t) /\ pc[t] = "s_knn") =>
              /\ self_index.set
              /\ k[t] = Clamp(top_k[t], Len(self_index.data))
        /\ (Searching(t) /\ pc[t] = "l_read") => vecFile.st # "partial"

\* the persisted artifacts are one index: a whole vectors file holding the
\* vectors of the catalog snapshot, and a metadata record, where there is
\* one, that counts them
ArtifactsAgree ==
    /\ vecFile.st = "ok"
    /\ metaFile.st = "ok"
    /\ vecFile.data = EmbedAll(metaFile.data)
    /\ infoFile.st = "ok" => infoFile.n = Len(vecFile.data)

\* C2: when build has failed on a write, is_built() is false or the
\* persisted artifacts are one complete index.
C2_FailedBuildLeavesNoPartialIndex ==
    (op[0] = "build" /\ pc[0] = "raise" /\ exc[0] = "OSError" /\ IsBuilt) => ArtifactsAgree

\* C3: at line 108 of main.py, when the constructor's load has left no
\* index in memory, is_built() is false, so that line 109 rebuilds.
C3_FailedLoadMeansNotBuilt ==
    (op[0] = "boot" /\ pc[0] = "m_isbuilt" /\ ~self_vectors.set) => ~IsBuilt

\* a build has completed and its index is the one in memory
IndexedAndPersisted ==
    /\ ArtifactsAgree
    /\ infoFile.st = "ok"
    /\ self_index = Some(vecFile.data)
    /\ \A t \in Threads : pc[t] \in {"idle", "serving", "s_ret"}

\* C4: with a completed build's index loaded, every row_id a /recommend
\* search returns is a row of the live catalog, and the row the catalog
\* snapshot of that build has at that id.
C4_HitsResolveInCatalog ==
    \A t \in Workers :
        (op[t] = "recommend" /\ pc[t] = "s_ret" /\ IndexedAndPersisted) =>
            \A i \in 1..Len(hits[t]) :
                /\ hits[t][i][1] < Len(df)
                /\ df[hits[t][i][1] + 1] = metaFile.data[hits[t][i][1] + 1]

\* C5: whenever is_built() is true, the metadata record exists and its
\* count is the number of persisted vectors.
C5_BuiltMeansMetadataAgrees ==
    IsBuilt =>
        /\ vecFile.st = "ok"
        /\ infoFile.st = "ok"
        /\ infoFile.n = Len(vecFile.data)

\* a search's lazy load (line 104) that has read the persisted vectors
LazyLoaded(t) == Searching(t) /\ pc[t] \in {"l_vectors", "l_n", "l_fit"}

\* C6: searches racing on the first access perform one load of the
\* persisted state: no two of them have each loaded the vectors file.
C6_OneLazyLoad ==
    \A t, u \in Workers : (t # u /\ LazyLoaded(t)) => ~LazyLoaded(u)

\* C7: when two uploads have both succeeded (both at line 231), the live
\* catalog holds the rows of both after the rows it started with, and the
\* index is fitted on that catalog.
C7_UploadsSerialized ==
    \A t, u \in Workers :
        (t # u /\ pc[t] = "u_ret" /\ pc[u] = "u_ret") =>
            /\ Len(df) >= Len(OrigCatalog) + Len(new_df[t]) + Len(new_df[u])
            /\ self_index = Some(EmbedAll(df))

(* -------- claims about VectorStore.search, one caller at a time -------- *)

\* there is nothing to search: is_built() is false, or the persisted vectors
\* are an array of no rows and so is the index in memory
NoIndex ==
    \/ ~IsBuilt
    \/ /\ vecFile.st = "ok"
       /\ Len(vecFile.data) = 0
       /\ IsFile(metaFile)
       /\ self_n = 0

\* C8: while there is nothing to search, no step of a search changes the
\* in-memory index or the files, search does not get past line 105, and what
\* it raises is the not-built error.
C8_SearchBeforeBuildFails ==
    [][(op[0] = "search" /\ NoIndex) =>
          /\ UNCHANGED <<mem, disk>>
          /\ pc'[0] \notin {"s_k", "s_knn", "s_ret"}
          /\ pc[0] = "s_guard" => pc'[0] = "raise"
          /\ pc'[0] = "raise" => exc'[0] = "NotBuilt"
          /\ hits'[0] = <<>>]_vars

\* a search has raised the not-built error over an index directory that
\* holds no index
C8_Witness ==
    /\ op[0] = "search"
    /\ pc[0] = "raise"
    /\ exc[0] = "NotBuilt"
    /\ ~IsBuilt

\* the row ids of a result
HitIds(h) == [i \in 1..Len(h) |-> h[i][1]]
HitSims(h) == [i \in 1..Len(h) |-> h[i][2]]

\* C9: a search over an index of n >= 1 rows returns min(max(1, top_k), n)
\* pairs, their row ids distinct and in 0..n-1; it raises only when there is
\* no index, and then the not-built error.
C9_ResultSize ==
    /\ (op[0] = "search" /\ pc[0] = "s_ret") =>
          /\ self_n >= 1
          /\ Len(hits[0]) = Min(Max(1, top_k[0]), self_n)
          /\ \A i, j \in 1..Len(hits[0]) : i # j => HitIds(hits[0])[i] # HitIds(hits[0])[j]
          /\ \A i \in 1..Len(hits[0]) : HitIds(hits[0])[i] \in 0..(self_n - 1)
    /\ (op[0] = "search" /\ pc[0] = "raise") =>
          /\ exc[0] = "NotBuilt"
          /\ ~self_vectors.set \/ ~self_index.set \/ self_n = 0

\* a search asked for more results than the index has rows, and returned
\* one pair per row
C9_Witness ==
    /\ op[0] = "search"
    /\ pc[0] = "s_ret"
    /\ self_n >= 2
    /\ top_k[0] > self_n
    /\ Len(hits[0]) = self_n

\* C10: a result is ordered by non-increasing similarity, results of equal
\* similarity are in ascending row_id order, and no row left out is more
\* similar to the query than a row returned.
C10_RankedWithTieBreak ==
    (op[0] = "search" /\ pc[0] = "s_ret") =>
        /\ \A i, j \in 1..Len(hits[0]) :
              i < j =>
                 /\ HitSims(hits[0])[i] >= HitSims(hits[0])[j]
                 /\ HitSims(hits[0])[i] = HitSims(hits[0])[j] =>
                       HitIds(hits[0])[i] < HitIds(hits[0])[j]
        /\ \A id \in RowIds(Len(self_index.data)) :
              (\A i \in 1..Len(hits[0]) : HitIds(hits[0])[i] # id) =>
                  \A i \in 1..Len(hits[0]) :
                      Similarity(DistOf(self_index.data, L2Normalize(Encode(query[0])), id))
                          <= HitSims(hits[0])[i]

(* ---------------- claims about the round trip across a restart --------- *)

\* C11: after a successful build, a search repeated with the same query and
\* top_k on a new VectorStore constructed over the same index directory
\* returns, and returns the same ranked row ids and similarities as the
\* search made before the restart.
C11_RoundTripAcrossRestart ==
    (before.stage = "again" /\ pc[0] \in {"s_ret", "raise"}) =>
        /\ pc[0] = "s_ret"
        /\ hits[0] = before.hits

\* a repeated search has returned three pairs, two of them of the same
\* similarity, from an index that was loaded from the files
C11_Witness ==
    /\ before.stage = "again"
    /\ pc[0] = "s_ret"
    /\ op[0] = "search"
    /\ Len(hits[0]) = 3
    /\ \E i, j \in 1..3 : i # j /\ hits[0][i][2] = hits[0][j][2]

(* ------------------ claims about DescriptionGenerator ------------------ *)

\* C12: whatever generate returns is a non-empty string: with no pipeline,
\* with a pipeline whose call raised, and with a pipeline whose text after
\* the marker is empty or whitespace only (generate has no raising exit).
C12_GenerateNonEmpty ==
    gen.pc = "returned" => Len(gen.ret) > 0

(* ------------------------ claims about /data/upload -------------------- *)

\* the service is up and no request is being served
Quiescent == pc[0] = "serving" /\ \A t \in Workers : pc[t] = "idle"

\* C13: after any sequence of completed upload requests, successful or
\* failed, served one at a time, the index in memory holds one vector per
\* row of the live catalog.
C13_IndexCountsCatalog ==
    Quiescent =>
        /\ self_index.set
        /\ Len(self_index.data) = Len(df)
        /\ self_n = Len(df)

====
